---- MODULE Spec2Model ----
(***************************************************************************)
(* Session orchestration layer of the tutoring backend.                    *)
(*                                                                         *)
(*   LearnSession         app/services/learn_session.py (state machine)    *)
(*   LearnSessionManager  app/services/learn_session.py (registry + DB)    *)
(*   websocket_endpoint / _handle_websocket_event   app/api/learn.py       *)
(*                                                                         *)
(*   VoiceManager         app/services/voice_manager.py                    *)
(*   LearnLLMService      app/services/learn_llm.py (language, parsing)    *)
(*                                                                         *)
(* The specifications share the variables:                                 *)
(*   SpecSM        the LearnSession operations called in any order;        *)
(*   SpecHist      add_history called repeatedly;                          *)
(*   SpecPause     the operations, with the runs of pause() calls kept;    *)
(*   SpecVoice     one VoiceManager in automatic mode;                     *)
(*   SpecLang      _detect_language applied to one text;                   *)
(*   SpecParse     _parse_response applied to one raw response;            *)
(*   SpecRegistry  the LearnSessionManager operations in any order;        *)
(*   Spec          the registry and one WebSocket connection;              *)
(*   SpecShared    the connection and the HTTP event endpoint;             *)
(*   SpecTalk      a connection carrying only user messages;               *)
(*   SpecInbox     a connection whose client sends while a turn runs.      *)
(***************************************************************************)
EXTENDS Integers, Sequences, FiniteSets, TLC

VARIABLES
    session,      \* the LearnSession object of the session id (its fields)
    cached,       \* session_id in LearnSessionManager.sessions
    db,           \* the LearningSessionModel row of the session id, or NoRow
    conn,         \* the WebSocket connection: "closed" or "open"
    pc,           \* position of the connection's coroutine
    event,        \* the inbound event being handled
    frame,        \* locals of _handle_websocket_event
    audio_task,   \* the asyncio task running get_audio()
    out,          \* outbound events sent while handling the current event
    ops,          \* LearnSession methods invoked by the last step, in order
    raised,       \* the last step ended in a raised ValueError
    received,     \* number of inbound events received so far
    voice,        \* the VoiceManager of the connection (its fields)
    inbox         \* messages the client has sent that are not yet received,
                  \* each with the position of the coroutine when it was sent

vars == <<session, cached, db, conn, pc, event, frame, audio_task, out, ops, raised, received, voice, inbox>>

gatewayVars == <<cached, db, conn, pc, event, frame, audio_task, out, received, voice, inbox>>

(***************************************************************************)
(* Bounds of the model                                                     *)
(***************************************************************************)
MaxInterruptions == 3
MaxSteps == 2
MaxCheckpoints == 2
MaxAppends == 12
MaxEvents == 2
MaxWords == 2
MaxActions == 2
LevelSpan == 1
MaxFrames == 13
MaxTokens == 7
MaxEntries == 2
MaxStored == 2

(***************************************************************************)
(* Program constants                                                       *)
(***************************************************************************)
MinDifficulty == 1
MaxDifficulty == 5
HistoryLimit == 100
DocumentedHistoryLimit == 10

SessionStatus == {"TEACHING", "PAUSED", "ANSWERING", "RESUMING", "IDLE"}

Roles == {"user", "assistant"}

Summaries == {"s1", "s2"}

\* integers a caller may pass to set_difficulty: below, inside and above 1..5
Levels == (MinDifficulty - LevelSpan)..(MaxDifficulty + LevelSpan)

NoRow == [present |-> FALSE]

\* an entry of ops: the method and its argument
Op(name, arg) == [op |-> name, arg |-> arg]

N(names) == [i \in DOMAIN names |-> Op(names[i], 0)]

NoEvent == [type |-> "NONE", kind |-> "", level |-> 0]

(***************************************************************************)
(* LearnSession                                                            *)
(***************************************************************************)
LearnSession(initial_difficulty) ==
    [status             |-> "IDLE",
     step_id            |-> 0,
     interruption_count |-> 0,
     difficulty_level   |-> initial_difficulty,
     checkpoint_summary |-> "",
     checkpoints        |-> <<>>,
     history            |-> <<>>,
     custom_title       |-> "",
     quizzes            |-> <<>>,
     flashcards         |-> <<>>]

start_raises(s) == s.status \notin {"IDLE", "ANSWERING"}

start(s) ==
    IF start_raises(s) THEN s
    ELSE [s EXCEPT !.status = "TEACHING", !.step_id = 0, !.interruption_count = 0]

pause_no_floor(s) ==
    IF s.status = "PAUSED"
    THEN [s EXCEPT !.interruption_count = @ + 1]
    ELSE [s EXCEPT !.status = "PAUSED",
                   !.interruption_count = @ + 1,
                   !.difficulty_level =
                       IF s.interruption_count + 1 > 1 THEN @ - 1 ELSE @]

pause(s) ==
    IF s.status = "PAUSED"
    THEN [s EXCEPT !.interruption_count = @ + 1]
    ELSE [s EXCEPT !.status = "PAUSED",
                   !.interruption_count = @ + 1,
                   !.difficulty_level =
                       IF s.interruption_count + 1 > 1 /\ s.difficulty_level > 1
                       THEN @ - 1 ELSE @]

set_difficulty(s, level) ==
    IF 1 <= level /\ level <= 5 THEN [s EXCEPT !.difficulty_level = level] ELSE s

resume_raises(s) == s.status # "PAUSED"

resume_unchecked(s) == [s EXCEPT !.status = "RESUMING"]

resume(s) ==
    IF resume_raises(s) THEN s ELSE [s EXCEPT !.status = "RESUMING"]

continue_teaching_raises(s) == s.status \notin {"RESUMING", "ANSWERING"}

continue_teaching_restarts(s) ==
    IF continue_teaching_raises(s) THEN s
    ELSE [s EXCEPT !.status = "TEACHING", !.interruption_count = 0]

continue_teaching(s) ==
    IF continue_teaching_raises(s) THEN s ELSE [s EXCEPT !.status = "TEACHING"]

wait_for_answer_keeps_status(s) == s

wait_for_answer(s) == [s EXCEPT !.status = "ANSWERING"]

next_step_stays(s) == s

next_step(s) == [s EXCEPT !.step_id = @ + 1]

CheckpointEvent(step, summary) == [step_id |-> step, short_summary |-> summary]

set_checkpoint(s, summary) ==
    [s EXCEPT !.checkpoint_summary = summary,
              !.checkpoints = Append(@, CheckpointEvent(s.step_id, summary))]

add_history(s, role, content) ==
    LET h == Append(s.history, [role |-> role, content |-> content])
    IN  [s EXCEPT !.history = IF Len(h) > HistoryLimit THEN Tail(h) ELSE h]

\* locals of _handle_websocket_event before an event is handled; s0 is the
\* session as it was when the event was received, result how the handler
\* ended, llm how the teacher-response call ended, llm_calls and tts_calls
\* the calls made to the language model and to the synthesizer so far
NoFrame ==
    [was_paused |-> FALSE, was_teaching |-> FALSE,
     words |-> 0, actions |-> <<>>, wi |-> 0, ai |-> 0,
     audio_data |-> "unset", result |-> "", s0 |-> LearnSession(MinDifficulty),
     llm |-> "", llm_calls |-> 0, tts_calls |-> 0]

(***************************************************************************)
(* VoiceManager: voice-activity detection and utterance buffering.  A chunk *)
(* is one frame; recorded_audio is kept as the number of frames of each    *)
(* classification it holds, calls as the recorded_audio of every           *)
(* transcription call made so far.                                         *)
(***************************************************************************)
max_silence_frames == 10

NoAudio == [speech |-> 0, silence |-> 0]

VoiceManager(has_vad) ==
    [vad            |-> has_vad,
     is_recording   |-> FALSE,
     silence_frames |-> 0,
     recorded_audio |-> NoAudio,
     auto_finish    |-> TRUE,
     calls          |-> <<>>]

\* is_speech of a frame: the detector's verdict, or is_recording without it
is_speech(v, verdict) == IF v.vad THEN verdict ELSE v.is_recording

\* the buffering of one frame, before the end-of-speech test
record_frame(v, speech) ==
    IF speech
    THEN LET v1 == IF ~v.is_recording /\ v.vad
                   THEN [v EXCEPT !.is_recording = TRUE, !.recorded_audio = NoAudio]
                   ELSE v
         IN  IF v1.is_recording
             THEN [v1 EXCEPT !.recorded_audio.speech = @ + 1, !.silence_frames = 0]
             ELSE v1
    ELSE IF v.is_recording
         THEN [v EXCEPT !.recorded_audio.silence = @ + 1,
                        !.silence_frames = IF v.auto_finish THEN @ + 1 ELSE @]
         ELSE v

\* the frame just buffered ends the utterance
ends_speech(v, speech) ==
    /\ ~speech
    /\ v.is_recording
    /\ v.silence_frames >= max_silence_frames
    /\ v.auto_finish

_process_recorded_speech(v) ==
    IF v.recorded_audio = NoAudio THEN v
    ELSE [v EXCEPT !.calls = Append(@, v.recorded_audio)]

add_audio_chunk_clears(v, verdict) ==
    LET speech == is_speech(v, verdict)
        v1 == record_frame(v, speech)
    IN  IF ends_speech(v1, speech)
        THEN [_process_recorded_speech(v1) EXCEPT !.is_recording = FALSE,
                                                  !.silence_frames = 0]
        ELSE v1

add_audio_chunk(v, verdict) ==
    LET speech == is_speech(v, verdict)
        v1 == record_frame(v, speech)
    IN  IF ends_speech(v1, speech)
        THEN [_process_recorded_speech(v1) EXCEPT !.is_recording = FALSE]
        ELSE v1

\* add_audio_chunk returns the result of a transcription rather than None
returns_text(v, verdict) ==
    ends_speech(record_frame(v, is_speech(v, verdict)), is_speech(v, verdict))

start_recording(v) ==
    IF ~v.is_recording
    THEN [v EXCEPT !.is_recording = TRUE, !.recorded_audio = NoAudio, !.silence_frames = 0]
    ELSE v

end_recording(v) ==
    IF v.is_recording
    THEN [_process_recorded_speech(v) EXCEPT !.is_recording = FALSE]
    ELSE v

(***************************************************************************)
(* SpecSM: the operations of one LearnSession called in any order          *)
(***************************************************************************)
Idle ==
    /\ cached = FALSE /\ db = NoRow /\ conn = "closed" /\ pc = "none"
    /\ event = NoEvent /\ frame = NoFrame
    /\ audio_task = "none" /\ out = <<>> /\ received = 0
    /\ voice = VoiceManager(TRUE)
    /\ inbox = <<>>

InitSM ==
    /\ \E d \in MinDifficulty..MaxDifficulty : session = LearnSession(d)
    /\ ops = <<>> /\ raised = FALSE
    /\ Idle

Call(name, raises, result) ==
    /\ session' = result
    /\ ops' = N(<<name>>)
    /\ raised' = raises
    /\ UNCHANGED gatewayVars

Start == Call("start", start_raises(session), start(session))

Pause ==
    /\ session.interruption_count < MaxInterruptions
    /\ Call("pause", FALSE, pause(session))

Resume == Call("resume", resume_raises(session), resume(session))

ContinueTeaching ==
    Call("continue_teaching", continue_teaching_raises(session), continue_teaching(session))

WaitForAnswer == Call("wait_for_answer", FALSE, wait_for_answer(session))

NextStep ==
    /\ session.step_id < MaxSteps
    /\ Call("next_step", FALSE, next_step(session))

SetCheckpoint ==
    /\ Len(session.checkpoints) < MaxCheckpoints
    /\ \E summary \in Summaries :
          Call("set_checkpoint", FALSE, set_checkpoint(session, summary))

SetDifficulty ==
    \E level \in Levels :
        /\ session' = set_difficulty(session, level)
        /\ ops' = <<Op("set_difficulty", level)>>
        /\ raised' = FALSE
        /\ UNCHANGED gatewayVars

NextSM ==
    \/ Start
    \/ Pause
    \/ Resume
    \/ ContinueTeaching
    \/ WaitForAnswer
    \/ NextStep
    \/ SetCheckpoint
    \/ SetDifficulty

SpecSM == InitSM /\ [][NextSM]_vars

(***************************************************************************)
(* SpecHist: add_history called repeatedly on a fresh session; the content *)
(* of the k-th appended entry is k                                         *)
(***************************************************************************)
InitHist ==
    /\ session = LearnSession(MinDifficulty)
    /\ ops = <<>> /\ raised = FALSE
    /\ Idle

AddHistory ==
    /\ Len(ops) < MaxAppends
    /\ \E role \in Roles :
          /\ session' = add_history(session, role, Len(ops) + 1)
          /\ ops' = Append(ops, Op("add_history", [role |-> role, content |-> Len(ops) + 1]))
    /\ UNCHANGED <<raised, gatewayVars>>

NextHist == AddHistory

SpecHist == InitHist /\ [][NextHist]_vars

(***************************************************************************)
(* SpecPause: the LearnSession operations called in any order, with ops    *)
(* keeping the run of consecutive pause() calls made last, each with the   *)
(* difficulty_level it left, and frame.s0 the session before the run       *)
(***************************************************************************)
PauseRun ==
    /\ session.interruption_count < MaxInterruptions
    /\ session' = pause(session)
    /\ raised' = FALSE
    /\ LET first == ops = <<>> \/ ops[Len(ops)].op # "pause"
           entry == Op("pause", pause(session).difficulty_level)
       IN  /\ ops' = IF first THEN <<entry>> ELSE Append(ops, entry)
           /\ frame' = IF first THEN [frame EXCEPT !.s0 = session] ELSE frame
    /\ UNCHANGED <<cached, db, conn, pc, event, audio_task, out, received, voice, inbox>>

NextPause ==
    \/ PauseRun
    \/ Start
    \/ Resume
    \/ ContinueTeaching
    \/ WaitForAnswer

SpecPause == InitSM /\ [][NextPause]_vars

(***************************************************************************)
(* SpecVoice: one VoiceManager in automatic mode fed one frame at a time;  *)
(* frame holds the run of frames fed since the recorder was last idle      *)
(***************************************************************************)
InitVoice ==
    /\ session = LearnSession(MinDifficulty)
    /\ ops = <<>> /\ raised = FALSE
    /\ cached = FALSE /\ db = NoRow /\ conn = "closed" /\ pc = "none"
    /\ event = NoEvent /\ frame = NoFrame
    /\ audio_task = "none" /\ out = <<>> /\ received = 0
    /\ \E has_vad \in BOOLEAN : voice = VoiceManager(has_vad)
    /\ inbox = <<>>

\* one frame arrives; ops records the classification of the frames fed
AddAudioChunk ==
    /\ received < MaxFrames
    /\ received' = received + 1
    /\ \E verdict \in BOOLEAN :
          /\ voice' = add_audio_chunk(voice, verdict)
          /\ ops' = Append(ops, Op("add_audio_chunk", is_speech(voice, verdict)))
    /\ UNCHANGED <<session, cached, db, conn, pc, event, frame, audio_task, out, raised, inbox>>

StartRecording ==
    /\ ~voice.is_recording
    /\ voice' = start_recording(voice)
    /\ ops' = Append(ops, Op("start_recording", FALSE))
    /\ UNCHANGED <<session, cached, db, conn, pc, event, frame, audio_task, out, raised, received, inbox>>

NextVoice ==
    \/ AddAudioChunk
    \/ StartRecording

SpecVoice == InitVoice /\ [][NextVoice]_vars

(***************************************************************************)
(* LearnLLMService._detect_language.  A text is the set of its cleaned     *)
(* tokens, drawn from a vocabulary that keeps the overlaps of the stop     *)
(* word lists; "shukran" and "kitab" stand for words written in Arabic     *)
(* script, the first of them a stop word.                                  *)
(***************************************************************************)
eng_stops == {"the", "is", "to", "question", "a"}

fr_stops == {"le", "je", "oui", "merci", "question", "la"}

es_stops == {"la", "a", "hola"}

ar_stops == {"shukran"}

Keywords == {"english", "anglais"}

ArabicScript == {"shukran", "kitab"}

Vocabulary == eng_stops \cup fr_stops \cup es_stops \cup ArabicScript \cup {"english", "ok"}

\* the keys of counts, in the order of the dict
Languages == <<"english", "french", "spanish", "arabic">>

\* values of session.language: none, the four names and an ISO code
ContextLanguages == {"", "english", "french", "spanish", "arabic", "en"}

StickyThreshold == 3

counts(text) ==
    [l \in {Languages[i] : i \in DOMAIN Languages} |->
        Cardinality(text \cap (CASE l = "english" -> eng_stops
                                 [] l = "french" -> fr_stops
                                 [] l = "spanish" -> es_stops
                                 [] l = "arabic" -> ar_stops))]

max_score(text) ==
    CHOOSE m \in {counts(text)[Languages[i]] : i \in DOMAIN Languages} :
        \A i \in DOMAIN Languages : counts(text)[Languages[i]] <= m

detected_last_key(text) ==
    Languages[CHOOSE i \in DOMAIN Languages :
        /\ counts(text)[Languages[i]] = max_score(text)
        /\ \A j \in (i + 1)..Len(Languages) : counts(text)[Languages[j]] < max_score(text)]

\* max(counts, key=counts.get): the first key holding the largest count
detected(text) ==
    Languages[CHOOSE i \in DOMAIN Languages :
        /\ counts(text)[Languages[i]] = max_score(text)
        /\ \A j \in 1..(i - 1) : counts(text)[Languages[j]] < max_score(text)]

weak_signal_any(score) == FALSE

\* a conflicting detection is too weak to leave the context language
weak_signal(score) == score < StickyThreshold

_detect_language(text, context_language) ==
    IF text \cap Keywords # {} THEN "english"
    ELSE IF text \cap ArabicScript # {} THEN "arabic"
    ELSE IF /\ context_language \in {Languages[i] : i \in DOMAIN Languages}
            /\ max_score(text) > 0 /\ detected(text) # context_language
            /\ weak_signal(max_score(text))
         THEN context_language
    ELSE IF /\ context_language \in {Languages[i] : i \in DOMAIN Languages}
            /\ ~(max_score(text) > 0 /\ detected(text) # context_language)
            /\ max_score(text) = 0
         THEN context_language
    ELSE IF max_score(text) = 0 THEN "english"
    ELSE detected(text)

(***************************************************************************)
(* SpecLang: _detect_language applied to one text and context language     *)
(***************************************************************************)
Texts == {t \in SUBSET Vocabulary : Cardinality(t) <= MaxTokens}

InitLang ==
    /\ session = LearnSession(MinDifficulty)
    /\ ops = <<>> /\ raised = FALSE
    /\ cached = FALSE /\ db = NoRow /\ conn = "closed" /\ pc = "none"
    /\ frame = NoFrame /\ audio_task = "none" /\ out = <<>> /\ received = 0
    /\ inbox = <<>>
    /\ voice = VoiceManager(TRUE)
    /\ \E t \in Texts, c \in ContextLanguages :
          event = [type |-> "DETECT", text |-> t, context_language |-> c]

DetectLanguage ==
    /\ pc = "none"
    /\ pc' = "detected"
    /\ out' = <<_detect_language(event.text, event.context_language)>>
    /\ UNCHANGED <<session, cached, db, conn, event, frame, audio_task, ops, raised, received, voice, inbox>>

NextLang == DetectLanguage

SpecLang == InitLang /\ [][NextLang]_vars

(***************************************************************************)
(* LearnLLMService._parse_response.  A raw model output is described by    *)
(* what its board region decodes to and by where its speech text is; an    *)
(* entry of a decoded list by the shape of its kind and of its payload.    *)
(***************************************************************************)
\* kind of an entry: missing, two members of BoardActionKind, a string that
\* is no member, a number, or a member used as the key of the entry
KindShapes == {"absent", "WRITE_TITLE", "SHOW_QUIZ", "DANCE", "number", "as_key"}

\* payload of an entry: missing, a map with a text, a number, a string, and
\* maps whose questions field is a list of maps, a number, a list of numbers
PayloadShapes ==
    {"absent", "text_map", "number", "string",
     "quiz_ok", "quiz_questions_number", "quiz_questions_of_numbers"}

KnownKinds == {"WRITE_BULLET", "WRITE_TITLE", "SHOW_QUIZ"}

Entries == [map : {TRUE}, kind : KindShapes, payload : PayloadShapes]
               \cup {[map |-> FALSE, kind |-> "absent", payload |-> "absent"]}

BoundedSeq(S, n) == UNION {[1..k -> S] : k \in 0..n}

\* board region: none, not decodable, a scalar, one map, a list
RawResponses ==
    [text : {"tagged", "untagged", "none"},
     board : {"absent", "invalid", "scalar"}, entries : {<<>>}]
    \cup [text : {"tagged", "untagged", "none"},
          board : {"map"}, entries : [1..1 -> Entries]]
    \cup [text : {"tagged", "untagged", "none"},
          board : {"list"}, entries : BoundedSeq(Entries, MaxEntries)]

\* "questions" in payload raises TypeError on a number
questions_in_raises(payload) == payload = "number"

has_questions(payload) ==
    payload \in {"quiz_ok", "quiz_questions_number", "quiz_questions_of_numbers"}

\* the kind-as-key fallback: {"WRITE_TITLE": "..."}
key_fallback(e) ==
    IF e.kind = "as_key" THEN [e EXCEPT !.kind = "WRITE_TITLE", !.payload = "text_map"] ELSE e

\* one pass of the loop over raw_actions: "raise", "skip" or the kind of the
\* BoardAction appended
parse_entry(entry) ==
    IF ~entry.map THEN "skip"
    ELSE LET e == key_fallback(entry)
             payload == IF e.payload = "absent" THEN "empty_map" ELSE e.payload
         IN  IF e.kind = "absent" /\ questions_in_raises(payload) THEN "raise"
             ELSE LET kind_str == IF e.kind # "absent" THEN e.kind
                                  ELSE IF has_questions(payload) THEN "SHOW_QUIZ"
                                  ELSE "WRITE_BULLET"
                  IN  IF kind_str = "SHOW_QUIZ" /\ questions_in_raises(payload)
                      THEN "raise"
                      ELSE IF /\ kind_str = "SHOW_QUIZ"
                              /\ payload \in {"quiz_questions_number", "quiz_questions_of_numbers"}
                      THEN "raise"
                      ELSE IF kind_str = "number" THEN "raise"
                      ELSE IF kind_str \notin KnownKinds THEN "skip"
                      ELSE IF payload \in {"number", "string"} THEN "skip"
                      ELSE kind_str

RECURSIVE parse_entries(_)
parse_entries(entries) ==
    IF entries = <<>> THEN [raised |-> FALSE, actions |-> <<>>]
    ELSE LET r == parse_entry(Head(entries))
             rest == parse_entries(Tail(entries))
         IN  IF r = "raise" THEN [raised |-> TRUE, actions |-> <<>>]
             ELSE IF r = "skip" THEN rest
             ELSE [rest EXCEPT !.actions = <<r>> \o @]

speech_of(raw) ==
    IF raw.text = "tagged" THEN "speech"
    ELSE IF raw.text = "untagged" THEN "raw_text"
    ELSE IF raw.board \in {"absent", "scalar"} THEN ""
    ELSE IF \E i \in DOMAIN raw.entries : has_questions(raw.entries[i].payload)
         THEN "quiz_default"
    ELSE "board_default"

_parse_response(raw) ==
    LET r == IF raw.board \in {"absent", "invalid", "scalar"}
             THEN [raised |-> FALSE, actions |-> <<>>]
             ELSE parse_entries(raw.entries)
    IN  [raised |-> r.raised,
         speech_text |-> IF r.raised THEN "" ELSE speech_of(raw),
         board_actions |-> r.actions]

(***************************************************************************)
(* SpecParse: _parse_response applied to one raw model output              *)
(***************************************************************************)
InitParse ==
    /\ session = LearnSession(MinDifficulty)
    /\ ops = <<>> /\ raised = FALSE
    /\ cached = FALSE /\ db = NoRow /\ conn = "closed" /\ pc = "none"
    /\ frame = NoFrame /\ audio_task = "none" /\ out = <<>> /\ received = 0
    /\ inbox = <<>>
    /\ voice = VoiceManager(TRUE)
    /\ \E raw \in RawResponses : event = [type |-> "PARSE", raw |-> raw]

ParseResponse ==
    /\ pc = "none"
    /\ pc' = "parsed"
    /\ out' = <<_parse_response(event.raw)>>
    /\ raised' = _parse_response(event.raw).raised
    /\ UNCHANGED <<session, cached, db, conn, event, frame, audio_task, ops, received, voice, inbox>>

NextParse == ParseResponse

SpecParse == InitParse /\ [][NextParse]_vars

(***************************************************************************)
(* LearnSessionManager: the in-memory cache and the database row           *)
(***************************************************************************)
\* columns of the row written for the display title and the study artifacts
StudyHubColumns(s) ==
    [custom_title |-> s.custom_title, quizzes |-> s.quizzes, flashcards |-> s.flashcards]

_save_session(s) ==
    [present            |-> TRUE,
     status             |-> s.status,
     difficulty_level   |-> s.difficulty_level,
     history            |-> s.history,
     checkpoint_summary |-> s.checkpoint_summary,
     hub                |-> StudyHubColumns(s)]

update_session(s) == _save_session(s)

RestoreStudyHub(s, row) ==
    [s EXCEPT !.custom_title = row.hub.custom_title,
              !.quizzes = row.hub.quizzes,
              !.flashcards = row.hub.flashcards]

\* the object get_session rebuilds from the row: the constructor's step_id
\* and interruption_count, the row's status, history and checkpoint summary,
\* and the row's checkpoints column, which _save_session never writes
Rehydrate(row) ==
    RestoreStudyHub(
        [LearnSession(row.difficulty_level) EXCEPT
            !.status = IF row.status \in SessionStatus THEN row.status ELSE "IDLE",
            !.history = row.history,
            !.checkpoints = <<>>,
            !.checkpoint_summary = row.checkpoint_summary],
        row)

get_session(s, isCached, row) == IF isCached THEN s ELSE Rehydrate(row)

session_exists(isCached, row) == isCached \/ row.present

(***************************************************************************)
(* SpecRegistry: the operations of LearnSessionManager called in any order *)
(* for one session id, with the cached session used in between             *)
(***************************************************************************)
InitRegistry ==
    /\ session = LearnSession(MinDifficulty)
    /\ ops = <<>> /\ raised = FALSE
    /\ Idle

RegistryCall(name, arg, raises) ==
    /\ ops' = <<Op(name, arg)>>
    /\ raised' = raises
    /\ UNCHANGED <<conn, pc, event, frame, audio_task, out, received, voice, inbox>>

\* create_session(session_id, ...): only the cache is consulted
RegistryCreate ==
    \E d \in MinDifficulty..MaxDifficulty :
        /\ IF cached
           THEN UNCHANGED <<session, cached, db>>
           ELSE /\ session' = start(LearnSession(d))
                /\ cached' = TRUE
                /\ db' = _save_session(start(LearnSession(d)))
        /\ RegistryCall("create_session", d, cached)

\* get_session, also as called by session_exists: a row is loaded and cached
RegistryGet ==
    /\ session_exists(cached, db)
    /\ session' = get_session(session, cached, db)
    /\ cached' = TRUE
    /\ UNCHANGED db
    /\ RegistryCall("get_session", 0, FALSE)

\* the gateway uses the cached session: an interruption, a stored message
RegistryUse ==
    /\ cached
    /\ \/ /\ session.interruption_count < MaxInterruptions
          /\ session' = pause(session)
       \/ /\ Len(session.history) < MaxStored
          /\ session' = add_history(session, "user", "plain")
    /\ UNCHANGED <<cached, db>>
    /\ RegistryCall("use", 0, FALSE)

RegistryUpdate ==
    /\ cached
    /\ db' = update_session(session)
    /\ UNCHANGED <<session, cached>>
    /\ RegistryCall("update_session", 0, FALSE)

RegistryClose ==
    /\ cached' = FALSE
    /\ UNCHANGED <<session, db>>
    /\ RegistryCall("close_session", 0, FALSE)

RegistryDelete ==
    /\ cached' = FALSE
    /\ db' = NoRow
    /\ UNCHANGED session
    /\ RegistryCall("delete_session", 0, FALSE)

NextRegistry ==
    \/ RegistryCreate
    \/ RegistryGet
    \/ RegistryUse
    \/ RegistryUpdate
    \/ RegistryClose
    \/ RegistryDelete

SpecRegistry == InitRegistry /\ [][NextRegistry]_vars

(***************************************************************************)
(* Outbound events                                                         *)
(***************************************************************************)
Ev(type, status, idx) == [type |-> type, status |-> status, idx |-> idx]

StatusEvent(status) == Ev("STATUS", status, 0)

HistoryEvent == Ev("HISTORY", "", 0)

TeacherTextDeltaEvent(i) == Ev("TEACHER_TEXT_DELTA", "", i)

BoardActionEvent(i) == Ev("BOARD_ACTION", "", i)

TeacherTextFinalEvent == Ev("TEACHER_TEXT_FINAL", "", 0)

AudioBytes == Ev("AUDIO", "", 0)

CheckpointSent(step) == Ev("CHECKPOINT", "", step)

ErrorEvent == Ev("ERROR", "", 0)

VoiceTranscriptionEvent == Ev("VOICE_TRANSCRIPTION", "", 0)

\* the STATUS event sent on connect; idx carries difficulty_level
InitialStatus(s) == Ev("STATUS", s.status, s.difficulty_level)

Greeting_history_always(s) == <<InitialStatus(s), HistoryEvent>>

\* what the endpoint sends before it enters the receive loop
Greeting(s) ==
    <<InitialStatus(s)>> \o (IF s.history # <<>> THEN <<HistoryEvent>> ELSE <<>>)

(***************************************************************************)
(* Inbound events and model responses                                      *)
(***************************************************************************)
MessageKinds == {"plain", "quiz_result"}

\* levels a client asks for: below the range, inside it and above it
RequestedLevels ==
    {MinDifficulty - LevelSpan, MaxDifficulty - LevelSpan, MaxDifficulty + LevelSpan}

\* text messages of the known types, a text message that does not decode
\* (no JSON, or a known type with a missing or ill-typed field), a text
\* message of an unknown type, and binary audio frames with the verdict
\* the voice-activity detector gives them
InboundEvents ==
    [type : {"USER_MESSAGE"}, kind : MessageKinds, level : {0}]
    \cup [type : {"INTERRUPT", "RESUME"}, kind : {""}, level : {0}]
    \cup [type : {"CHANGE_DIFFICULTY"}, kind : {""}, level : RequestedLevels]
    \cup [type : {"TOGGLE_VOICE"}, kind : {"start", "stop"}, level : {0}]
    \cup [type : {"REQUEST_QUIZ", "REQUEST_FLASHCARDS"}, kind : {""}, level : {0}]
    \cup [type : {"UNDECODABLE", "UNKNOWN"}, kind : {""}, level : {0}]
    \cup [type : {"AUDIO"}, kind : {"speech", "silence"}, level : {0}]

BoardActionKind == <<"WRITE_TITLE", "SHOW_QUIZ", "SHOW_FLASHCARDS">>

\* the board action lists a response may carry: the runs of consecutive
\* kinds, of every length up to MaxActions and from every first kind
BoardActionLists ==
    {[i \in 1..n |-> BoardActionKind[((i + o) % Len(BoardActionKind)) + 1]] :
        n \in 0..MaxActions, o \in 1..Len(BoardActionKind)}

\* the board actions of _mock_response
MockActions == <<"WRITE_TITLE", "WRITE_BULLET", "WRITE_BULLET">>

\* what the user's text is stored as in the history
StudentInput(kind, was_paused, was_teaching) ==
    IF kind = "quiz_result" THEN "quiz_result"
    ELSE IF was_paused THEN "follow_up"
    ELSE IF was_teaching THEN "interruption"
    ELSE "plain"

GenericTitles == {"", "Session", "Current Session", "New Discussion"}

(***************************************************************************)
(* Spec: registry and one WebSocket connection                             *)
(***************************************************************************)
Init ==
    /\ session = LearnSession(MinDifficulty)
    /\ ops = <<>> /\ raised = FALSE
    /\ Idle

\* POST /learn/session/start
CreateSession ==
    /\ ~session_exists(cached, db)
    /\ \E d \in MinDifficulty..MaxDifficulty :
          /\ session' = start(LearnSession(d))
          /\ db' = _save_session(start(LearnSession(d)))
    /\ cached' = TRUE
    /\ ops' = N(<<"start">>)
    /\ raised' = FALSE
    /\ pc' = "none"
    /\ UNCHANGED <<conn, event, frame, audio_task, out, received, voice, inbox>>

\* the cache entry is dropped while no connection is served (close_session,
\* or a new LearnSessionManager after a restart); the row stays
close_session ==
    /\ cached /\ conn = "closed"
    /\ cached' = FALSE
    /\ ops' = <<>>
    /\ raised' = FALSE
    /\ UNCHANGED <<session, db, conn, pc, event, frame, audio_task, out, received, voice, inbox>>

ConnectUnknown ==
    /\ conn = "closed"
    /\ ~session_exists(cached, db)
    /\ pc = "none"
    /\ pc' = "not_found"
    /\ ops' = <<>>
    /\ raised' = FALSE
    /\ UNCHANGED <<session, cached, db, conn, event, frame, audio_task, out, received, voice, inbox>>

Connect ==
    /\ conn = "closed"
    /\ session_exists(cached, db)
    /\ LET s == get_session(session, cached, db)
       IN  /\ session' = s
           /\ out' = Greeting(s)
    /\ cached' = TRUE
    /\ conn' = "open"
    /\ pc' = "receive"
    /\ ops' = IF cached THEN <<>> ELSE N(<<"get_session">>)
    /\ raised' = FALSE
    /\ event' = NoEvent
    /\ frame' = NoFrame
    /\ voice' = [VoiceManager(TRUE) EXCEPT !.auto_finish = FALSE]
    /\ UNCHANGED <<db, audio_task, received, inbox>>

AwaitPoints ==
    {"receive", "um_teaching", "um_quiz", "um_history", "um_generate", "um_delta",
     "um_board", "um_await", "um_final", "um_audio", "um_title", "um_finish",
     "rs_continue", "return",
     "rq_generate", "rq_stream", "rq_final", "rf_generate", "rf_stream", "rf_final"}

\* the client goes away: the pending receive or send raises and the
\* endpoint coroutine ends
Disconnect ==
    /\ conn = "open"
    /\ pc \in AwaitPoints
    /\ conn' = "closed"
    /\ pc' = "none"
    /\ audio_task' = "none"
    /\ event' = NoEvent
    /\ frame' = NoFrame
    /\ out' = <<>>
    /\ ops' = <<>>
    /\ raised' = FALSE
    /\ voice' = VoiceManager(TRUE)
    /\ UNCHANGED <<session, cached, db, received, inbox>>

Entry(type) ==
    CASE type = "USER_MESSAGE" -> "um_check"
      [] type = "INTERRUPT" -> "interrupt"
      [] type = "RESUME" -> "rs_resume"
      [] type = "CHANGE_DIFFICULTY" -> "change_difficulty"
      [] type = "TOGGLE_VOICE" -> "toggle_voice"
      [] type = "REQUEST_QUIZ" -> "rq_generate"
      [] type = "REQUEST_FLASHCARDS" -> "rf_wait"
      [] type = "UNDECODABLE" -> "decode"
      [] type = "UNKNOWN" -> "unknown"
      [] type = "AUDIO" -> "audio_chunk"

\* the messages a client sends when it only talks to the tutor
UserMessages == [type : {"USER_MESSAGE"}, kind : MessageKinds, level : {0}]

ReceiveOf(events) ==
    /\ conn = "open" /\ pc = "receive"
    /\ received < MaxEvents
    /\ received' = received + 1
    /\ \E e \in events :
          /\ event' = e
          /\ pc' = Entry(e.type)
    /\ frame' = [NoFrame EXCEPT !.s0 = session]
    /\ out' = <<>>
    /\ ops' = <<>>
    /\ raised' = FALSE
    /\ UNCHANGED <<session, cached, db, conn, audio_task, voice, inbox>>

Receive == ReceiveOf(InboundEvents)

ReceiveMessage == ReceiveOf(UserMessages)

\* the except branch of _handle_websocket_event
HandlerRaises ==
    /\ out' = Append(out, ErrorEvent)
    /\ pc' = "return"
    /\ frame' = [frame EXCEPT !.result = "aborted"]
    /\ audio_task' = "none"

\* the branch of the event ran to its end
Completes ==
    /\ pc' = "return"
    /\ frame' = [frame EXCEPT !.result = "completed"]
    /\ audio_task' = "none"

\* the handler returns to the receive loop; its locals are gone
Return ==
    /\ conn = "open" /\ pc = "return"
    /\ pc' = "receive"
    /\ event' = NoEvent
    /\ frame' = NoFrame
    /\ out' = <<>>
    /\ ops' = <<>>
    /\ raised' = FALSE
    /\ UNCHANGED <<session, cached, db, conn, audio_task, received, voice, inbox>>

(***************************************************************************)
(* _handle_websocket_event, UserMessageEvent branch                        *)
(***************************************************************************)
UM_Interrupt_pauses_when_paused ==
    /\ conn = "open" /\ pc = "um_check"
    /\ LET was_paused == session.status = "PAUSED"
           was_teaching == session.status = "TEACHING"
           is_interruption == was_paused \/ was_teaching
       IN  /\ frame' = [frame EXCEPT !.was_paused = was_paused,
                                     !.was_teaching = was_teaching]
           /\ IF is_interruption
              THEN session' = pause(session) /\ ops' = N(<<"pause">>)
              ELSE session' = session /\ ops' = <<>>
    /\ pc' = "um_wait"
    /\ raised' = FALSE
    /\ UNCHANGED <<cached, db, conn, event, audio_task, out, received, voice, inbox>>

UM_Interrupt ==
    /\ conn = "open" /\ pc = "um_check"
    /\ LET was_paused == session.status = "PAUSED"
           was_teaching == session.status = "TEACHING"
           is_interruption == was_paused \/ was_teaching
       IN  /\ frame' = [frame EXCEPT !.was_paused = was_paused,
                                     !.was_teaching = was_teaching]
           /\ IF is_interruption /\ ~was_paused
              THEN session' = pause(session) /\ ops' = N(<<"pause">>)
              ELSE session' = session /\ ops' = <<>>
    /\ pc' = "um_wait"
    /\ raised' = FALSE
    /\ UNCHANGED <<cached, db, conn, event, audio_task, out, received, voice, inbox>>

UM_WaitForAnswer ==
    /\ conn = "open" /\ pc = "um_wait"
    /\ session' = wait_for_answer(session)
    /\ out' = Append(out, StatusEvent("ANSWERING"))
    /\ pc' = "um_teaching"
    /\ ops' = N(<<"wait_for_answer">>)
    /\ raised' = FALSE
    /\ UNCHANGED <<cached, db, conn, event, frame, audio_task, received, voice, inbox>>

UM_StatusTeaching ==
    /\ conn = "open" /\ pc = "um_teaching"
    /\ out' = Append(out, StatusEvent("TEACHING"))
    /\ pc' = IF event.kind = "quiz_result" THEN "um_quiz" ELSE "um_history"
    /\ ops' = <<>>
    /\ raised' = FALSE
    /\ UNCHANGED <<session, cached, db, conn, event, frame, audio_task, received, voice, inbox>>

\* handle_quiz_result is a no-op; the status is broadcast again
UM_QuizResult ==
    /\ conn = "open" /\ pc = "um_quiz"
    /\ out' = Append(out, StatusEvent(session.status))
    /\ pc' = "um_history"
    /\ ops' = N(<<"handle_quiz_result">>)
    /\ raised' = FALSE
    /\ UNCHANGED <<session, cached, db, conn, event, frame, audio_task, received, voice, inbox>>

UM_History ==
    /\ conn = "open" /\ pc = "um_history"
    /\ LET s == add_history(session, "user",
                    StudentInput(event.kind, frame.was_paused, frame.was_teaching))
       IN  /\ session' = s
           /\ db' = update_session(s)
    /\ pc' = "um_generate"
    /\ ops' = N(<<"add_history">>)
    /\ raised' = FALSE
    /\ UNCHANGED <<cached, conn, event, frame, audio_task, out, received, voice, inbox>>

\* update_session raises (the database is unavailable): the row keeps its
\* old content and the handler's except branch answers with an ERROR event
UM_HistoryFails ==
    /\ conn = "open" /\ pc = "um_history"
    /\ session' = add_history(session, "user",
                      StudentInput(event.kind, frame.was_paused, frame.was_teaching))
    /\ HandlerRaises
    /\ ops' = N(<<"add_history">>)
    /\ raised' = FALSE
    /\ UNCHANGED <<cached, db, conn, event, received, voice, inbox>>

AfterDeltas(f) == IF Len(f.actions) > 0 THEN "um_board" ELSE "um_await"

AfterGenerate_board_first(f) ==
    IF Len(f.actions) > 0 THEN "um_board"
    ELSE IF f.words > 0 THEN "um_delta" ELSE "um_await"

AfterGenerate(f) == IF f.words > 0 THEN "um_delta" ELSE AfterDeltas(f)

AudioReady_no_await(task) == TRUE

\* await audio_task returns once get_audio has returned
AudioReady(task) == task \in {"bytes", "None"}

\* the responses generate_teacher_response may return: what the provider
\* produced, or the mock response when the provider call failed
Responses ==
    [llm : {"ok"}, words : 0..MaxWords, actions : BoardActionLists]
    \cup {[llm |-> "mock", words |-> MaxWords, actions |-> MockActions]}

\* generate_teacher_response returns; get_audio is started as a task
UM_Generate ==
    /\ conn = "open" /\ pc = "um_generate"
    /\ \E r \in Responses :
          LET f == [frame EXCEPT !.words = r.words, !.actions = r.actions,
                                 !.llm = r.llm, !.llm_calls = @ + 1,
                                 !.tts_calls = @ + 1]
          IN  /\ frame' = f
              /\ pc' = AfterGenerate(f)
    /\ audio_task' = "running"
    /\ ops' = <<>>
    /\ raised' = FALSE
    /\ UNCHANGED <<session, cached, db, conn, event, out, received, voice, inbox>>

\* generate_teacher_response raises (prompt building or trace logging)
UM_GenerateFails ==
    /\ conn = "open" /\ pc = "um_generate"
    /\ HandlerRaises
    /\ ops' = <<>>
    /\ raised' = FALSE
    /\ UNCHANGED <<session, cached, db, conn, event, received, voice, inbox>>

\* get_audio finishes while the handler is suspended: bytes, or None when
\* synthesize_response raised or produced nothing
AudioTaskRuns ==
    /\ conn = "open"
    /\ audio_task = "running"
    /\ pc \in {"um_delta", "um_board", "um_await", "rq_stream", "rq_final"}
    /\ \E r \in {"bytes", "None"} : audio_task' = r
    /\ ops' = <<>>
    /\ raised' = FALSE
    /\ UNCHANGED <<session, cached, db, conn, pc, event, frame, out, received, voice, inbox>>

UM_Delta ==
    /\ conn = "open" /\ pc = "um_delta"
    /\ frame.wi < frame.words
    /\ out' = Append(out, TeacherTextDeltaEvent(frame.wi + 1))
    /\ frame' = [frame EXCEPT !.wi = @ + 1]
    /\ pc' = IF frame.wi + 1 < frame.words THEN "um_delta" ELSE AfterDeltas(frame)
    /\ ops' = <<>>
    /\ raised' = FALSE
    /\ UNCHANGED <<session, cached, db, conn, event, audio_task, received, voice, inbox>>

\* the artifact lists after board action kind is sent
Persisted(s, kind) ==
    IF kind = "SHOW_QUIZ" THEN [s EXCEPT !.quizzes = Append(@, "quiz")]
    ELSE IF kind = "SHOW_FLASHCARDS" THEN [s EXCEPT !.flashcards = Append(@, "cards")]
    ELSE s

UM_Board ==
    /\ conn = "open" /\ pc = "um_board"
    /\ frame.ai < Len(frame.actions)
    /\ LET kind == frame.actions[frame.ai + 1]
           s == Persisted(session, kind)
       IN  /\ session' = s
           /\ db' = IF kind \in {"SHOW_QUIZ", "SHOW_FLASHCARDS"}
                    THEN update_session(s) ELSE db
    /\ out' = Append(out, BoardActionEvent(frame.ai + 1))
    /\ frame' = [frame EXCEPT !.ai = @ + 1]
    /\ pc' = IF frame.ai + 1 < Len(frame.actions) THEN "um_board" ELSE "um_await"
    /\ ops' = <<>>
    /\ raised' = FALSE
    /\ UNCHANGED <<cached, conn, event, audio_task, received, voice, inbox>>

\* update_session raises after a quiz or flashcards action was sent
UM_BoardFails ==
    /\ conn = "open" /\ pc = "um_board"
    /\ frame.ai < Len(frame.actions)
    /\ frame.actions[frame.ai + 1] \in {"SHOW_QUIZ", "SHOW_FLASHCARDS"}
    /\ session' = Persisted(session, frame.actions[frame.ai + 1])
    /\ out' = Append(Append(out, BoardActionEvent(frame.ai + 1)), ErrorEvent)
    /\ pc' = "return"
    /\ frame' = [frame EXCEPT !.ai = @ + 1, !.result = "aborted"]
    /\ audio_task' = "none"
    /\ ops' = <<>>
    /\ raised' = FALSE
    /\ UNCHANGED <<cached, db, conn, event, received, voice, inbox>>

\* audio_data = await audio_task
UM_AwaitAudio ==
    /\ conn = "open" /\ pc = "um_await"
    /\ AudioReady(audio_task)
    /\ frame' = [frame EXCEPT !.audio_data = audio_task]
    /\ audio_task' = "none"
    /\ pc' = "um_final"
    /\ ops' = <<>>
    /\ raised' = FALSE
    /\ UNCHANGED <<session, cached, db, conn, event, out, received, voice, inbox>>

AfterFinal_always_audio(f) == "um_audio"

\* if audio_data: the bytes are sent only when the synthesis returned some
AfterFinal(f) == IF f.audio_data = "bytes" THEN "um_audio" ELSE "um_title"

UM_Final ==
    /\ conn = "open" /\ pc = "um_final"
    /\ out' = Append(out, TeacherTextFinalEvent)
    /\ pc' = AfterFinal(frame)
    /\ ops' = <<>>
    /\ raised' = FALSE
    /\ UNCHANGED <<session, cached, db, conn, event, frame, audio_task, received, voice, inbox>>

UM_SendAudio ==
    /\ conn = "open" /\ pc = "um_audio"
    /\ out' = Append(out, AudioBytes)
    /\ pc' = "um_title"
    /\ ops' = <<>>
    /\ raised' = FALSE
    /\ UNCHANGED <<session, cached, db, conn, event, frame, audio_task, received, voice, inbox>>

\* automatic titling: generate_title yields a new title, or nothing usable
UM_Title ==
    /\ conn = "open" /\ pc = "um_title"
    /\ \/ /\ session.custom_title \in GenericTitles
          /\ session' = [session EXCEPT !.custom_title = "T"]
          /\ db' = update_session([session EXCEPT !.custom_title = "T"])
          /\ out' = Append(out, StatusEvent(session.status))
          /\ frame' = [frame EXCEPT !.llm_calls = @ + 1]
       \/ /\ session.custom_title \in GenericTitles
          /\ frame' = [frame EXCEPT !.llm_calls = @ + 1]
          /\ UNCHANGED <<session, db, out>>
       \/ /\ session.custom_title \notin GenericTitles
          /\ UNCHANGED <<session, db, out, frame>>
    /\ pc' = "um_finish"
    /\ ops' = <<>>
    /\ raised' = FALSE
    /\ UNCHANGED <<cached, conn, event, audio_task, received, voice, inbox>>

UM_Finish ==
    /\ conn = "open" /\ pc = "um_finish"
    /\ LET s1 == add_history(session, "assistant", "speech")
           s2 == continue_teaching(s1)
           s3 == next_step(s2)
           s4 == set_checkpoint(s3, "s1")
       IN  IF continue_teaching_raises(s1)
           THEN /\ session' = s1
                /\ raised' = TRUE
                /\ ops' = N(<<"add_history", "continue_teaching">>)
                /\ HandlerRaises
           ELSE /\ session' = s4
                /\ raised' = FALSE
                /\ ops' = N(<<"add_history", "continue_teaching", "next_step", "set_checkpoint">>)
                /\ out' = Append(out, CheckpointSent(s4.step_id))
                /\ Completes
    /\ UNCHANGED <<cached, db, conn, event, received, voice, inbox>>

(***************************************************************************)
(* InterruptEvent, ResumeEvent and ChangeDifficultyEvent branches          *)
(***************************************************************************)
HandleInterrupt ==
    /\ conn = "open" /\ pc = "interrupt"
    /\ session' = pause(session)
    /\ out' = Append(out, StatusEvent("PAUSED"))
    /\ Completes
    /\ ops' = N(<<"pause">>)
    /\ raised' = FALSE
    /\ UNCHANGED <<cached, db, conn, event, received, voice, inbox>>

RS_Resume ==
    /\ conn = "open" /\ pc = "rs_resume"
    /\ session' = resume(session)
    /\ ops' = N(<<"resume">>)
    /\ raised' = resume_raises(session)
    /\ IF resume_raises(session)
       THEN HandlerRaises
       ELSE /\ out' = Append(out, StatusEvent("RESUMING"))
            /\ pc' = "rs_continue"
            /\ UNCHANGED <<frame, audio_task>>
    /\ UNCHANGED <<cached, db, conn, event, received, voice, inbox>>

RS_Continue ==
    /\ conn = "open" /\ pc = "rs_continue"
    /\ session' = continue_teaching(session)
    /\ ops' = N(<<"continue_teaching">>)
    /\ raised' = continue_teaching_raises(session)
    /\ IF continue_teaching_raises(session)
       THEN HandlerRaises
       ELSE /\ out' = Append(out, StatusEvent("TEACHING"))
            /\ Completes
    /\ UNCHANGED <<cached, db, conn, event, received, voice, inbox>>

HandleChangeDifficulty ==
    /\ conn = "open" /\ pc = "change_difficulty"
    /\ session' = set_difficulty(session, event.level)
    /\ out' = Append(out, StatusEvent(set_difficulty(session, event.level).status))
    /\ Completes
    /\ ops' = <<Op("set_difficulty", event.level)>>
    /\ raised' = FALSE
    /\ UNCHANGED <<cached, db, conn, event, received, voice, inbox>>

(***************************************************************************)
(* The message loop of websocket_endpoint: messages it handles itself      *)
(***************************************************************************)
\* the outer except branch of websocket_endpoint: an ERROR event is sent and
\* the endpoint function ends
LoopRaises ==
    /\ pc' = "ended"
    /\ frame' = [frame EXCEPT !.result = "loop_ended"]
    /\ audio_task' = "none"

\* json.loads or the construction of the event raises
DecodeFails ==
    /\ conn = "open" /\ pc = "decode"
    /\ out' = Append(out, ErrorEvent)
    /\ LoopRaises
    /\ ops' = <<>>
    /\ raised' = FALSE
    /\ UNCHANGED <<session, cached, db, conn, event, received, voice, inbox>>

\* the endpoint function has returned: the server closes the connection
EndpointReturns ==
    /\ conn = "open" /\ pc = "ended"
    /\ conn' = "closed"
    /\ pc' = "none"
    /\ audio_task' = "none"
    /\ event' = NoEvent
    /\ frame' = NoFrame
    /\ out' = <<>>
    /\ ops' = <<>>
    /\ raised' = FALSE
    /\ voice' = VoiceManager(TRUE)
    /\ UNCHANGED <<session, cached, db, received, inbox>>

\* an unknown event type is answered and the loop continues
UnknownType ==
    /\ conn = "open" /\ pc = "unknown"
    /\ out' = Append(out, ErrorEvent)
    /\ pc' = "return"
    /\ frame' = [frame EXCEPT !.result = "rejected"]
    /\ ops' = <<>>
    /\ raised' = FALSE
    /\ UNCHANGED <<session, cached, db, conn, event, audio_task, received, voice, inbox>>

ToggleVoice ==
    /\ conn = "open" /\ pc = "toggle_voice"
    /\ IF event.kind = "start"
       THEN /\ voice' = start_recording(voice)
            /\ out' = out
       ELSE /\ voice' = end_recording(voice)
            /\ out' = Append(out, VoiceTranscriptionEvent)
    /\ Completes
    /\ ops' = <<>>
    /\ raised' = FALSE
    /\ UNCHANGED <<session, cached, db, conn, event, received, inbox>>

\* a binary frame; a transcription it returns is handled as a user message
AudioChunk ==
    /\ conn = "open" /\ pc = "audio_chunk"
    /\ voice' = add_audio_chunk(voice, event.kind = "speech")
    /\ IF returns_text(voice, event.kind = "speech")
       THEN /\ event' = [type |-> "USER_MESSAGE", kind |-> "plain", level |-> 0]
            /\ pc' = "um_check"
            /\ UNCHANGED <<frame, audio_task>>
       ELSE /\ event' = event
            /\ Completes
    /\ ops' = <<>>
    /\ raised' = FALSE
    /\ UNCHANGED <<session, cached, db, conn, out, received, inbox>>

(***************************************************************************)
(* REQUEST_QUIZ, handled inside the message loop                           *)
(***************************************************************************)
QuizResponses == {<<>>, <<"SHOW_QUIZ">>}

\* generate_quiz_response returns; get_audio is started as a task
RQ_Generate ==
    /\ conn = "open" /\ pc = "rq_generate"
    /\ \E acts \in QuizResponses :
          frame' = [frame EXCEPT !.words = 1, !.actions = acts, !.llm = "ok",
                                 !.llm_calls = @ + 1, !.tts_calls = @ + 1]
    /\ audio_task' = "running"
    /\ pc' = "rq_stream"
    /\ ops' = <<>>
    /\ raised' = FALSE
    /\ UNCHANGED <<session, cached, db, conn, event, out, received, voice, inbox>>

\* generate_quiz_response raises (prompt building, response parsing)
RQ_GenerateFails ==
    /\ conn = "open" /\ pc = "rq_generate"
    /\ out' = Append(out, ErrorEvent)
    /\ LoopRaises
    /\ ops' = <<>>
    /\ raised' = FALSE
    /\ UNCHANGED <<session, cached, db, conn, event, received, voice, inbox>>

\* the board actions are sent first, then the deltas
RQ_Stream ==
    /\ conn = "open" /\ pc = "rq_stream"
    /\ LET s == IF frame.actions = <<>> THEN session ELSE Persisted(session, "SHOW_QUIZ")
       IN  /\ session' = s
           /\ db' = IF frame.actions = <<>> THEN db ELSE update_session(s)
    /\ out' = out \o [i \in 1..Len(frame.actions) |-> BoardActionEvent(i)]
                  \o [i \in 1..frame.words |-> TeacherTextDeltaEvent(i)]
    /\ frame' = [frame EXCEPT !.ai = Len(frame.actions), !.wi = frame.words]
    /\ pc' = "rq_final"
    /\ ops' = <<>>
    /\ raised' = FALSE
    /\ UNCHANGED <<cached, conn, event, audio_task, received, voice, inbox>>

\* update_session raises after the quiz was sent
RQ_StreamFails ==
    /\ conn = "open" /\ pc = "rq_stream"
    /\ frame.actions # <<>>
    /\ session' = Persisted(session, "SHOW_QUIZ")
    /\ out' = Append(Append(out, BoardActionEvent(1)), ErrorEvent)
    /\ pc' = "ended"
    /\ frame' = [frame EXCEPT !.ai = 1, !.result = "loop_ended"]
    /\ audio_task' = "none"
    /\ ops' = <<>>
    /\ raised' = FALSE
    /\ UNCHANGED <<cached, db, conn, event, received, voice, inbox>>

\* await audio_task, the final event, the audio
RQ_Final ==
    /\ conn = "open" /\ pc = "rq_final"
    /\ AudioReady(audio_task)
    /\ out' = Append(out, TeacherTextFinalEvent)
                 \o (IF audio_task = "bytes" THEN <<AudioBytes>> ELSE <<>>)
    /\ pc' = "return"
    /\ frame' = [frame EXCEPT !.audio_data = audio_task, !.result = "completed"]
    /\ audio_task' = "none"
    /\ ops' = <<>>
    /\ raised' = FALSE
    /\ UNCHANGED <<session, cached, db, conn, event, received, voice, inbox>>

(***************************************************************************)
(* _handle_websocket_event, RequestFlashcardsEvent branch                  *)
(***************************************************************************)
FlashcardResponses == {<<>>, <<"SHOW_FLASHCARDS">>}

RF_Wait ==
    /\ conn = "open" /\ pc = "rf_wait"
    /\ session' = wait_for_answer(session)
    /\ out' = Append(out, StatusEvent("TEACHING"))
    /\ pc' = "rf_generate"
    /\ ops' = N(<<"wait_for_answer">>)
    /\ raised' = FALSE
    /\ UNCHANGED <<cached, db, conn, event, frame, audio_task, received, voice, inbox>>

\* generate_flashcards_response returns and the speech is synthesized; a
\* failed synthesis leaves audio_data None
RF_Generate ==
    /\ conn = "open" /\ pc = "rf_generate"
    /\ \E acts \in FlashcardResponses, a \in {"bytes", "None"} :
          frame' = [frame EXCEPT !.words = 1, !.actions = acts, !.audio_data = a,
                                 !.llm = "ok", !.llm_calls = @ + 1, !.tts_calls = @ + 1]
    /\ pc' = "rf_stream"
    /\ ops' = <<>>
    /\ raised' = FALSE
    /\ UNCHANGED <<session, cached, db, conn, event, audio_task, out, received, voice, inbox>>

RF_GenerateFails ==
    /\ conn = "open" /\ pc = "rf_generate"
    /\ HandlerRaises
    /\ ops' = <<>>
    /\ raised' = FALSE
    /\ UNCHANGED <<session, cached, db, conn, event, received, voice, inbox>>

\* a deck equal to a stored one is not stored again
is_duplicate(s) == \E i \in DOMAIN s.flashcards : s.flashcards[i] = "cards"

\* the deltas, then the board actions with the deck persisted
RF_Stream ==
    /\ conn = "open" /\ pc = "rf_stream"
    /\ LET stores == frame.actions # <<>> /\ ~is_duplicate(session)
           s == IF stores THEN Persisted(session, "SHOW_FLASHCARDS") ELSE session
       IN  /\ session' = s
           /\ db' = IF stores THEN update_session(s) ELSE db
    /\ out' = out \o [i \in 1..frame.words |-> TeacherTextDeltaEvent(i)]
                  \o [i \in 1..Len(frame.actions) |-> BoardActionEvent(i)]
    /\ frame' = [frame EXCEPT !.ai = Len(frame.actions), !.wi = frame.words]
    /\ pc' = "rf_final"
    /\ ops' = <<>>
    /\ raised' = FALSE
    /\ UNCHANGED <<cached, conn, event, audio_task, received, voice, inbox>>

\* update_session raises after the deck was sent
RF_StreamFails ==
    /\ conn = "open" /\ pc = "rf_stream"
    /\ frame.actions # <<>> /\ ~is_duplicate(session)
    /\ session' = Persisted(session, "SHOW_FLASHCARDS")
    /\ out' = out \o [i \in 1..frame.words |-> TeacherTextDeltaEvent(i)]
                  \o <<BoardActionEvent(1), ErrorEvent>>
    /\ pc' = "return"
    /\ frame' = [frame EXCEPT !.ai = 1, !.wi = frame.words, !.result = "aborted"]
    /\ audio_task' = "none"
    /\ ops' = <<>>
    /\ raised' = FALSE
    /\ UNCHANGED <<cached, db, conn, event, received, voice, inbox>>

\* the final event, the audio, and the end of the turn
RF_Finish ==
    /\ conn = "open" /\ pc = "rf_final"
    /\ LET s1 == add_history(session, "assistant", "speech")
           s2 == continue_teaching(s1)
           s3 == next_step(s2)
           sent == Append(out, TeacherTextFinalEvent)
                      \o (IF frame.audio_data = "bytes" THEN <<AudioBytes>> ELSE <<>>)
       IN  IF continue_teaching_raises(s1)
           THEN /\ session' = s1
                /\ raised' = TRUE
                /\ ops' = N(<<"add_history", "continue_teaching">>)
                /\ out' = Append(sent, ErrorEvent)
                /\ pc' = "return"
                /\ frame' = [frame EXCEPT !.result = "aborted"]
                /\ audio_task' = "none"
           ELSE /\ session' = s3
                /\ raised' = FALSE
                /\ ops' = N(<<"add_history", "continue_teaching", "next_step">>)
                /\ out' = sent
                /\ Completes
    /\ UNCHANGED <<cached, db, conn, event, received, voice, inbox>>

Next ==
    \/ CreateSession
    \/ close_session
    \/ ConnectUnknown
    \/ Connect
    \/ Disconnect
    \/ Receive
    \/ Return
    \/ UM_Interrupt
    \/ UM_WaitForAnswer
    \/ UM_StatusTeaching
    \/ UM_QuizResult
    \/ UM_History
    \/ UM_HistoryFails
    \/ UM_Generate
    \/ UM_GenerateFails
    \/ AudioTaskRuns
    \/ UM_Delta
    \/ UM_Board
    \/ UM_BoardFails
    \/ UM_AwaitAudio
    \/ UM_Final
    \/ UM_SendAudio
    \/ UM_Title
    \/ UM_Finish
    \/ HandleInterrupt
    \/ RS_Resume
    \/ RS_Continue
    \/ HandleChangeDifficulty
    \/ DecodeFails
    \/ EndpointReturns
    \/ UnknownType
    \/ ToggleVoice
    \/ AudioChunk
    \/ RQ_Generate
    \/ RQ_GenerateFails
    \/ RQ_Stream
    \/ RQ_StreamFails
    \/ RQ_Final
    \/ RF_Wait
    \/ RF_Generate
    \/ RF_GenerateFails
    \/ RF_Stream
    \/ RF_StreamFails
    \/ RF_Finish

Spec == Init /\ [][Next]_vars

(***************************************************************************)
(* SpecShared: a WebSocket connection handling user messages while the     *)
(* HTTP event endpoint is called for the same session id                   *)
(***************************************************************************)
\* POST /learn/session/event with an InterruptEvent: _handle_event pauses
\* the session object it gets from the registry
HttpInterrupt ==
    /\ cached
    /\ received < MaxEvents
    /\ received' = received + 1
    /\ session' = pause(session)
    /\ ops' = N(<<"pause">>)
    /\ raised' = FALSE
    /\ UNCHANGED <<cached, db, conn, pc, event, frame, audio_task, out, voice, inbox>>

\* POST /learn/session/event with a ResumeEvent: resume then
\* continue_teaching; a rejected resume is answered with status 500
HttpResume ==
    /\ cached
    /\ received < MaxEvents
    /\ received' = received + 1
    /\ session' = IF resume_raises(session) THEN session
                   ELSE continue_teaching(resume(session))
    /\ ops' = IF resume_raises(session) THEN N(<<"resume">>)
              ELSE N(<<"resume", "continue_teaching">>)
    /\ raised' = resume_raises(session)
    /\ UNCHANGED <<cached, db, conn, pc, event, frame, audio_task, out, voice, inbox>>

NextShared ==
    \/ CreateSession
    \/ Connect
    \/ ReceiveMessage
    \/ Return
    \/ UM_Interrupt
    \/ UM_WaitForAnswer
    \/ UM_StatusTeaching
    \/ UM_QuizResult
    \/ UM_History
    \/ UM_HistoryFails
    \/ UM_Generate
    \/ UM_GenerateFails
    \/ AudioTaskRuns
    \/ UM_Delta
    \/ UM_Board
    \/ UM_BoardFails
    \/ UM_AwaitAudio
    \/ UM_Final
    \/ UM_SendAudio
    \/ UM_Title
    \/ UM_Finish
    \/ HttpInterrupt
    \/ HttpResume

SpecShared == Init /\ [][NextShared]_vars

(***************************************************************************)
(* SpecTalk: a session is created and its client, on one connection, only  *)
(* sends USER_MESSAGE events                                               *)
(***************************************************************************)
NextTalk ==
    \/ CreateSession
    \/ Connect
    \/ ReceiveMessage
    \/ Return
    \/ UM_Interrupt
    \/ UM_WaitForAnswer
    \/ UM_StatusTeaching
    \/ UM_QuizResult
    \/ UM_History
    \/ UM_HistoryFails
    \/ UM_Generate
    \/ UM_GenerateFails
    \/ AudioTaskRuns
    \/ UM_Delta
    \/ UM_Board
    \/ UM_BoardFails
    \/ UM_AwaitAudio
    \/ UM_Final
    \/ UM_SendAudio
    \/ UM_Title
    \/ UM_Finish

SpecTalk == Init /\ [][NextTalk]_vars

(***************************************************************************)
(* SpecInbox: one connection whose client sends messages at any time, also *)
(* while a turn is being handled; received counts the messages sent        *)
(***************************************************************************)
\* what the client sends: a question, or an interruption
Sent ==
    {[type |-> "USER_MESSAGE", kind |-> "plain", level |-> 0],
     [type |-> "INTERRUPT", kind |-> "", level |-> 0]}

ClientSends ==
    /\ conn = "open"
    /\ received < MaxEvents
    /\ received' = received + 1
    /\ \E e \in Sent : inbox' = Append(inbox, [event |-> e, at |-> pc])
    /\ UNCHANGED <<session, cached, db, conn, pc, event, frame, audio_task, out, ops, raised, voice>>

CanReceive_at_any_await(p) == p \in AwaitPoints

\* websocket.receive() is awaited only at the top of the message loop
CanReceive(p) == p = "receive"

ReceiveInbox ==
    /\ conn = "open" /\ CanReceive(pc)
    /\ inbox # <<>>
    /\ event' = Head(inbox).event
    /\ pc' = Entry(Head(inbox).event.type)
    /\ inbox' = Tail(inbox)
    /\ frame' = [NoFrame EXCEPT !.s0 = session]
    /\ out' = <<>>
    /\ ops' = <<>>
    /\ raised' = FALSE
    /\ UNCHANGED <<session, cached, db, conn, audio_task, received, voice>>

NextInbox ==
    \/ CreateSession
    \/ Connect
    \/ ClientSends
    \/ ReceiveInbox
    \/ Return
    \/ UM_Interrupt
    \/ UM_WaitForAnswer
    \/ UM_StatusTeaching
    \/ UM_History
    \/ UM_HistoryFails
    \/ UM_Generate
    \/ UM_GenerateFails
    \/ AudioTaskRuns
    \/ UM_Delta
    \/ UM_Board
    \/ UM_BoardFails
    \/ UM_AwaitAudio
    \/ UM_Final
    \/ UM_SendAudio
    \/ UM_Title
    \/ UM_Finish
    \/ HandleInterrupt

SpecInbox == Init /\ [][NextInbox]_vars

(***************************************************************************)
(* Properties                                                              *)
(***************************************************************************)
Called(name) == Len(ops') >= 1 /\ ops'[1].op = name

Invoked(name) == \E i \in 1..Len(ops') : ops'[i].op = name

Arg == ops'[1].arg

Positions(o, type) == {i \in 1..Len(o) : o[i].type = type}

Count(o, type) == Cardinality(Positions(o, type))

\* C1: difficultyLevel is in 1..5 in every reachable state of every sequence
\* of LearnSession operations on a session created with a difficulty in
\* 1..5; pause never takes it below 1, and set_difficulty(n) with n outside
\* 1..5 leaves it unchanged.
C1_DifficultyInRange ==
    /\ [](session.difficulty_level \in MinDifficulty..MaxDifficulty)
    /\ [][/\ Called("pause") => session'.difficulty_level >= MinDifficulty
          /\ (Called("set_difficulty") /\ Arg \notin MinDifficulty..MaxDifficulty)
                => session'.difficulty_level = session.difficulty_level
          /\ (Called("set_difficulty") /\ Arg \in MinDifficulty..MaxDifficulty)
                => session'.difficulty_level = Arg]_vars

\* a pause was applied to a session at difficulty 1 after an earlier pause
C1_Witness ==
    /\ ops = N(<<"pause">>)
    /\ session.status = "PAUSED"
    /\ session.interruption_count >= 2
    /\ session.difficulty_level = MinDifficulty

\* the transition table of the state machine: operation, status before,
\* status after
TableStep(op, from, to) ==
    \/ op = "start" /\ from \in {"IDLE", "ANSWERING"} /\ to = "TEACHING"
    \/ op = "pause" /\ to = "PAUSED"
    \/ op = "resume" /\ from = "PAUSED" /\ to = "RESUMING"
    \/ op = "continue_teaching" /\ from \in {"RESUMING", "ANSWERING"} /\ to = "TEACHING"
    \/ op = "wait_for_answer" /\ to = "ANSWERING"

\* C2: every change of the session's status is a transition of the table,
\* made by one of start, pause, resume, continueTeaching and waitForAnswer;
\* no other code path changes the status.
C2_StatusOnlyByTable ==
    [][session'.status # session.status =>
          \E i \in 1..Len(ops') : TableStep(ops'[i].op, session.status, session'.status)]_vars

\* C3: resume() from a status other than PAUSED and continueTeaching() from a
\* status other than RESUMING and ANSWERING raise, and the failed call leaves
\* every field of the session as it was; from the valid statuses they do not
\* raise.
C3_InvalidTransitionRejected ==
    [][/\ Called("resume") =>
             /\ raised' = (session.status # "PAUSED")
             /\ raised' => session' = session
       /\ Called("continue_teaching") =>
             /\ raised' = (session.status \notin {"RESUMING", "ANSWERING"})
             /\ raised' => session' = session]_vars

\* a resume or continueTeaching call was rejected
C3_Witness ==
    /\ raised
    /\ ops \in {N(<<"resume">>), N(<<"continue_teaching">>)}
    /\ session.status \in {"TEACHING", "PAUSED"}

\* C4: interruptionCount is never negative, decreases only by the reset to 0
\* of start(), and is increased only by pause(), by exactly 1 per call.
C4_InterruptionCountMonotone ==
    /\ [](session.interruption_count >= 0)
    /\ [][/\ session'.interruption_count < session.interruption_count
                => (Invoked("start") /\ session'.interruption_count = 0)
          /\ session'.interruption_count > session.interruption_count
                => (Invoked("pause")
                    /\ session'.interruption_count = session.interruption_count + 1)
          /\ Invoked("pause")
                => session'.interruption_count = session.interruption_count + 1]_vars

\* the last min(k, n) of the k entries appended so far
MostRecent(log, n) ==
    IF Len(log) <= n THEN log ELSE SubSeq(log, Len(log) - n + 1, Len(log))

\* C5: after any sequence of appends the history holds at most N = 10
\* entries and equals the most recent min(k, N) appended entries in
\* insertion order.
C5_HistoryBoundedToTen ==
    /\ Len(session.history) <= DocumentedHistoryLimit
    /\ session.history = MostRecent([i \in 1..Len(ops) |-> ops[i].arg], DocumentedHistoryLimit)

\* C6: stepCounter never decreases; it increases by exactly 1 when a
\* USER_MESSAGE turn completes and is unchanged by every other step.
C6_StepCounterMonotone ==
    [][/\ session'.step_id >= session.step_id
       /\ (pc = "um_finish" /\ pc' = "return" /\ frame'.result = "completed")
             => session'.step_id = session.step_id + 1
       /\ (/\ ~(pc = "um_finish" /\ pc' = "return" /\ frame'.result = "completed")
           /\ event.type \notin {"REQUEST_FLASHCARDS"})
             => session'.step_id = session.step_id]_vars

InUserTurn == event.type = "USER_MESSAGE" /\ pc \notin {"um_check", "um_wait"}

TurnCompleted == pc = "return" /\ frame.result = "completed"

\* the positions of the events of type a all precede those of type b
Precede(o, a, b) ==
    \A i \in Positions(o, a), j \in Positions(o, b) : i < j

\* the events of the type appear with idx 1, 2, ... in that order
InOrder(o, type) ==
    \A i \in Positions(o, type) :
        o[i].idx = Cardinality({j \in Positions(o, type) : j <= i})

TaskStarted == audio_task # "none" \/ frame.audio_data # "unset"

Awaited == frame.audio_data # "unset"

\* C8 as stated: the synthesis task is started before the first delta, is
\* awaited only after the final event has been sent, and the audio is never
\* sent before the final event.
C8_AwaitAfterFinal ==
    InUserTurn =>
        /\ (Count(out, "TEACHER_TEXT_DELTA") > 0 /\ frame.result # "aborted") => TaskStarted
        /\ Awaited => Count(out, "TEACHER_TEXT_FINAL") = 1
        /\ Precede(out, "TEACHER_TEXT_FINAL", "AUDIO")
        /\ Count(out, "AUDIO") = 1 => Count(out, "TEACHER_TEXT_FINAL") = 1

\* C8 amended: the synthesis task is started before the first delta and runs
\* while deltas and board actions are sent; it is awaited after the last
\* board action and before the final event, so the final event is sent only
\* once the task has returned, and the audio is sent only after the final
\* event.
C8_AudioAfterFinal ==
    InUserTurn =>
        /\ (Count(out, "TEACHER_TEXT_DELTA") > 0 /\ frame.result # "aborted") => TaskStarted
        /\ audio_task # "none" => Count(out, "TEACHER_TEXT_FINAL") = 0
        /\ Awaited =>
              /\ frame.audio_data \in {"bytes", "None"}
              /\ Count(out, "TEACHER_TEXT_DELTA") = frame.words
              /\ Count(out, "BOARD_ACTION") = Len(frame.actions)
        /\ Count(out, "TEACHER_TEXT_FINAL") = 1 => Awaited
        /\ Precede(out, "TEACHER_TEXT_FINAL", "AUDIO")
        /\ Count(out, "AUDIO") = 1 =>
              Count(out, "TEACHER_TEXT_FINAL") = 1 /\ frame.audio_data = "bytes"

\* the task returned its bytes while deltas were still being sent, and the
\* audio went out after the final event
C8_Witness ==
    /\ InUserTurn /\ TurnCompleted
    /\ Count(out, "AUDIO") = 1
    /\ frame.words > 0 /\ Len(frame.actions) > 0

\* C9: a USER_MESSAGE received in status TEACHING with interruptionCount 0
\* first pauses the session (interruptionCount 1, difficulty unchanged),
\* then waits for the answer, and the completed turn leaves the session in
\* TEACHING with stepCounter increased by 1 and a checkpoint of the new
\* stepCounter appended.
C9_TurnFromTeaching ==
    (event.type = "USER_MESSAGE"
       /\ frame.s0.status = "TEACHING" /\ frame.s0.interruption_count = 0) =>
        /\ pc = "um_wait" =>
              /\ ops = N(<<"pause">>)
              /\ session.status = "PAUSED"
        /\ pc \notin {"um_check", "return"} =>
              /\ session.interruption_count = 1
              /\ session.difficulty_level = frame.s0.difficulty_level
              /\ session.step_id = frame.s0.step_id
        /\ InUserTurn /\ pc # "return" => session.status = "ANSWERING"
        /\ TurnCompleted =>
              /\ ops = N(<<"add_history", "continue_teaching", "next_step", "set_checkpoint">>)
              /\ session.status = "TEACHING"
              /\ session.interruption_count = 1
              /\ session.difficulty_level = frame.s0.difficulty_level
              /\ session.step_id = frame.s0.step_id + 1
              /\ Len(session.checkpoints) = Len(frame.s0.checkpoints) + 1
              /\ session.checkpoints[Len(session.checkpoints)].step_id = session.step_id
              /\ out[Len(out)] = CheckpointSent(session.step_id)

\* the first turn of a session created with difficulty 2 has completed
C9_Witness ==
    /\ event.type = "USER_MESSAGE" /\ TurnCompleted
    /\ frame.s0.status = "TEACHING" /\ frame.s0.interruption_count = 0
    /\ frame.s0.difficulty_level = 2
    /\ session.step_id = 1

\* C10: a RESUME received while PAUSED calls resume() then continueTeaching()
\* and emits exactly the RESUMING status then the TEACHING status, leaving
\* the session in TEACHING with every other field unchanged.
C10_ResumeFromPaused ==
    (event.type = "RESUME" /\ frame.s0.status = "PAUSED") =>
        /\ pc = "rs_continue" =>
              /\ ops = N(<<"resume">>) /\ ~raised
              /\ session = [frame.s0 EXCEPT !.status = "RESUMING"]
              /\ out = <<StatusEvent("RESUMING")>>
        /\ pc = "return" =>
              /\ frame.result = "completed"
              /\ ops = N(<<"continue_teaching">>) /\ ~raised
              /\ session = [frame.s0 EXCEPT !.status = "TEACHING"]
              /\ out = <<StatusEvent("RESUMING"), StatusEvent("TEACHING")>>

\* a resume of a paused session that had been interrupted has completed
C10_Witness ==
    /\ event.type = "RESUME" /\ TurnCompleted
    /\ frame.s0.status = "PAUSED"
    /\ frame.s0.interruption_count >= 1
    /\ session.status = "TEACHING"

\* the frames fed so far are K frames of speech followed by j silent frames
Scenario(K, j) ==
    ops = [i \in 1..(K + j) |-> Op("add_audio_chunk", i <= K)]

\* C17 as stated: K >= 1 speech frames then M >= 10 silent frames make
\* exactly one transcription call, at the 10th silent frame, over the K
\* speech frames, after which isRecording is false and the silence count
\* is 0; further silent frames make no second call.
C17_TranscribesSpeechFramesAndResets ==
    \A K \in 1..MaxFrames, j \in 0..MaxFrames :
        Scenario(K, j) =>
            /\ j < max_silence_frames => voice.calls = <<>>
            /\ j >= max_silence_frames =>
                  /\ voice.calls = <<[speech |-> K, silence |-> 0]>>
                  /\ ~voice.is_recording
                  /\ voice.silence_frames = 0

\* C17 amended: the one call is made at the 10th silent frame over the
\* whole recording, the K speech frames and the 10 silent frames after
\* them; afterwards isRecording is false, the silence count stays at the
\* threshold until the next recording starts, and later silent frames are
\* neither recorded nor transcribed.
C17_TranscribesRecordingOnce ==
    \A K \in 1..MaxFrames, j \in 0..MaxFrames :
        Scenario(K, j) =>
            /\ j < max_silence_frames =>
                  /\ voice.calls = <<>>
                  /\ voice.is_recording
                  /\ voice.silence_frames = j
                  /\ voice.recorded_audio = [speech |-> K, silence |-> j]
            /\ j >= max_silence_frames =>
                  /\ voice.calls = <<[speech |-> K, silence |-> max_silence_frames]>>
                  /\ ~voice.is_recording
                  /\ voice.silence_frames = max_silence_frames
                  /\ voice.recorded_audio = [speech |-> K, silence |-> max_silence_frames]

\* two speech frames and eleven silent frames were fed: the call was made
\* and the eleventh silent frame made no second one
C17_Witness ==
    /\ Scenario(2, max_silence_frames + 1)
    /\ Len(voice.calls) = 1
    /\ ~voice.is_recording

Supported == {Languages[i] : i \in DOMAIN Languages}

PlainText(t) == t \cap Keywords = {} /\ t \cap ArabicScript = {}

\* C18 as stated: for a text without Arabic script and without the english
\* keyword, a supported context language is returned whenever the winning
\* count is below 3, english is returned without a context language at a
\* winning count of 0, and a text with at least 3 distinct English stop
\* words yields english under a french context.
C18_StickyUnlessThreeEnglishWords ==
    (pc = "detected" /\ PlainText(event.text)) =>
        /\ (event.context_language \in Supported /\ max_score(event.text) < StickyThreshold)
              => out[1] = event.context_language
        /\ (event.context_language = "" /\ max_score(event.text) = 0)
              => out[1] = "english"
        /\ (event.context_language = "french"
              /\ Cardinality(event.text \cap eng_stops) >= StickyThreshold)
              => out[1] = "english"

\* C18 amended: as stated, except that a text with at least 3 distinct
\* English stop words yields english under a french context only when
\* English is the winner, that is when no other language matches more of
\* its stop words than English does; otherwise the winner is returned.
C18_StickyUnlessWinnerHasThree ==
    (pc = "detected" /\ PlainText(event.text)) =>
        /\ (event.context_language \in Supported /\ max_score(event.text) < StickyThreshold)
              => out[1] = event.context_language
        /\ (event.context_language = "" /\ max_score(event.text) = 0)
              => out[1] = "english"
        /\ (event.context_language = "french"
              /\ Cardinality(event.text \cap eng_stops) >= StickyThreshold)
              => /\ (\A l \in Supported :
                        counts(event.text)[l] <= counts(event.text)["english"])
                        => out[1] = "english"
                 /\ out[1] = detected(event.text)
        /\ (event.context_language \in Supported /\ max_score(event.text) >= StickyThreshold)
              => out[1] = detected(event.text)

\* one English stop word under a french context: the context was kept
C18_Witness ==
    /\ pc = "detected"
    /\ event.text = {"the", "ok"}
    /\ event.context_language = "french"
    /\ out = <<"french">>

\* C16: the turn-response parser never raises: for every raw model output
\* it returns a speech text and a list of board actions, an empty list in
\* the worst case.
C16_ParserNeverRaises ==
    pc = "parsed" =>
        /\ ~raised
        /\ \A i \in DOMAIN out[1].board_actions : out[1].board_actions[i] \in KnownKinds

\* C15: create(id) fails if a session with that id is present, in the
\* cache or in storage after it left the cache; a rejected create leaves
\* the session and its stored record unchanged, and a create succeeds only
\* when the id is absent, so that at most one create succeeds for an id.
C15_CreateFailsIfPresent ==
    [][Called("create_session") =>
          IF cached \/ db.present
          THEN raised' /\ session' = session /\ db' = db /\ cached' = cached
          ELSE ~raised' /\ cached' /\ db'.present]_vars

\* C11: an exception raised while one inbound message of any kind is
\* processed is answered with an ERROR event and never ends the message
\* loop: after the ERROR event the loop waits for the next message.
C11_ErrorKeepsLoop ==
    frame.result \in {"aborted", "loop_ended"} =>
        /\ out # <<>> /\ out[Len(out)] = ErrorEvent
        /\ conn = "open" /\ pc = "return"

\* C12: an inbound text message that does not decode is answered with an
\* ERROR event, leaves the session unchanged, and the loop goes on to
\* receive the next message.
C12_UndecodableAnswered ==
    (event.type = "UNDECODABLE" /\ pc # "decode") =>
        /\ out = <<ErrorEvent>>
        /\ session = frame.s0
        /\ conn = "open" /\ pc = "return"

\* C13: for every sequence of well-formed inbound messages on a connection
\* the gateway never calls resume() or continueTeaching() from a status in
\* which the call is rejected, so no ERROR event is sent because of a
\* rejected transition.
C13_NoRejectedTransition ==
    \A i \in 1..Len(ops) :
        ops[i].op \in {"resume", "continue_teaching"} =>
            ~(raised /\ i = Len(ops))

\* the points at which a handler of the connection is suspended
Suspended == AwaitPoints \ {"receive", "return"}

\* C14: the handlers that read or mutate a session never interleave: while
\* a handler is suspended no other handler changes the status, stepCounter,
\* interruptionCount or history of its session.
C14_NoInterleavedMutation ==
    [][(pc \in Suspended /\ pc' = pc /\ frame' = frame) =>
          /\ session'.status = session.status
          /\ session'.step_id = session.step_id
          /\ session'.interruption_count = session.interruption_count
          /\ session'.history = session.history]_vars

\* C19: a connect to an unknown session id is closed without any event;
\* otherwise the first event is a STATUS event with the session's status
\* and difficulty, a HISTORY event follows it exactly when the history is
\* not empty, and nothing else is sent before the first inbound message is
\* received.
C19_ConnectGreeting ==
    [][/\ (pc # "not_found" /\ pc' = "not_found") =>
             /\ conn' = "closed" /\ out' = <<>>
             /\ ~cached /\ ~db.present
       /\ (conn = "closed" /\ conn' = "open") =>
             /\ cached \/ db.present
             /\ out'[1] = Ev("STATUS", session'.status, session'.difficulty_level)
             /\ out' = IF session'.history # <<>>
                       THEN <<out'[1], HistoryEvent>> ELSE <<out'[1]>>
             /\ pc' = "receive" /\ event' = NoEvent /\ received' = received]_vars

\* a client reconnected to a session that has a history
C19_Witness ==
    /\ conn = "open" /\ pc = "receive"
    /\ session.history # <<>>
    /\ out = <<InitialStatus(session), HistoryEvent>>

FinishOps == N(<<"add_history", "continue_teaching", "next_step", "set_checkpoint">>)

\* a turn in which the provider call or the synthesis failed
Degraded == frame.llm = "mock" \/ frame.audio_data = "None"

DegradedTurnGoesOn ==
    /\ frame.llm = "mock" => (frame.words = MaxWords /\ frame.actions = MockActions)
    /\ frame.audio_data = "None" => Count(out, "AUDIO") = 0
    /\ Degraded =>
          /\ Count(out, "ERROR") = 0
          /\ frame.result # "aborted"
          /\ conn = "open"
          /\ pc = "return" =>
                /\ Count(out, "TEACHER_TEXT_FINAL") = 1
                /\ ops = FinishOps
                /\ session.status = "TEACHING"
                /\ session.step_id = frame.s0.step_id + 1

\* C20 as stated: a failed provider call makes the turn go on with the mock
\* response, a failed synthesis makes it send no audio; no ERROR event is
\* sent, the final event is sent, the turn ends with continueTeaching() and
\* nextStep(), the connection stays open, and the language model and the
\* synthesizer are each called at most once in the turn.
C20_DegradedAndCalledOnce ==
    (event.type = "USER_MESSAGE" /\ pc # "um_check") =>
        /\ DegradedTurnGoesOn
        /\ frame.llm_calls <= 1
        /\ frame.tts_calls <= 1

\* C20 amended: as stated, except that the language model is called once for
\* the teacher response, never again for it, and a second time in the same
\* turn only to generate a title, when the session had no descriptive title.
C20_DegradedAndNotRetried ==
    (event.type = "USER_MESSAGE" /\ pc # "um_check") =>
        /\ DegradedTurnGoesOn
        /\ frame.tts_calls <= 1
        /\ frame.llm_calls <= 2
        /\ pc \notin {"um_finish", "return"} => frame.llm_calls <= 1
        /\ frame.llm_calls = 2 => frame.s0.custom_title \in GenericTitles
        /\ (pc \in {"um_finish", "return"} /\ frame.result # "aborted"
              /\ frame.s0.custom_title \in GenericTitles) => frame.llm_calls = 2

\* a turn completed on the mock response and without audio
C20_Witness ==
    /\ event.type = "USER_MESSAGE" /\ TurnCompleted
    /\ frame.llm = "mock" /\ frame.audio_data = "None"
    /\ frame.llm_calls = 2

\* the last calls were at least two pause() calls in a row
TwoPauses == Len(ops) >= 2 /\ ops[1].op = "pause" /\ ops[2].op = "pause"

\* C21 as stated: two consecutive pause() calls increment interruptionCount
\* by exactly 2 and change difficultyLevel at most once; when it changes,
\* the change is a decrement by 1 that happens only after the second call
\* and only if difficultyLevel was greater than 1.
C21_SecondPauseLowers ==
    (TwoPauses /\ Len(ops) = 2) =>
        /\ session.interruption_count = frame.s0.interruption_count + 2
        /\ ops[1].arg = frame.s0.difficulty_level
        /\ ops[2].arg \in {ops[1].arg, ops[1].arg - 1}
        /\ ops[2].arg # ops[1].arg => frame.s0.difficulty_level > 1

\* C21 amended: two consecutive pause() calls increment interruptionCount by
\* exactly 2 and change difficultyLevel at most once; when it changes, the
\* change is a decrement by 1 made by the first call, only if that call
\* found a status other than PAUSED, an interruptionCount of at least 1 and
\* a difficultyLevel greater than 1; the second call never changes it.
C21_FirstPauseLowers ==
    (TwoPauses /\ Len(ops) = 2) =>
        /\ session.interruption_count = frame.s0.interruption_count + 2
        /\ session.status = "PAUSED"
        /\ ops[2].arg = ops[1].arg
        /\ ops[1].arg \in {frame.s0.difficulty_level, frame.s0.difficulty_level - 1}
        /\ ops[1].arg # frame.s0.difficulty_level <=>
              /\ frame.s0.status # "PAUSED"
              /\ frame.s0.interruption_count >= 1
              /\ frame.s0.difficulty_level > 1

\* two pause() calls in a row, the first of which lowered the difficulty
C21_Witness ==
    /\ TwoPauses /\ Len(ops) = 2
    /\ session.difficulty_level = frame.s0.difficulty_level - 1
    /\ session.interruption_count = frame.s0.interruption_count + 2

\* the step of the user-message branch that decides on the interruption
InterruptionCheck == event.type = "USER_MESSAGE" /\ pc = "um_check" /\ pc' = "um_wait"

\* C22 as stated: a USER_MESSAGE received in TEACHING or PAUSED makes the
\* gateway apply pause(), so that interruptionCount increases by 1, before
\* waitForAnswer(); in any other status pause() is not applied and
\* interruptionCount is unchanged.
C22_PauseWhenTeachingOrPaused ==
    [][InterruptionCheck =>
          IF session.status \in {"TEACHING", "PAUSED"}
          THEN /\ ops' = N(<<"pause">>)
               /\ session'.interruption_count = session.interruption_count + 1
          ELSE /\ ops' = <<>>
               /\ session'.interruption_count = session.interruption_count]_vars

\* C22 amended: a USER_MESSAGE received in TEACHING makes the gateway apply
\* pause() (PAUSED, interruptionCount + 1) before waitForAnswer(); received
\* in PAUSED it is marked as a follow-up but pause() is not applied; in every
\* status other than TEACHING the session is left as it is until
\* waitForAnswer().
C22_PauseOnlyWhenTeaching ==
    [][InterruptionCheck =>
          /\ frame'.was_paused = (session.status = "PAUSED")
          /\ frame'.was_teaching = (session.status = "TEACHING")
          /\ IF session.status = "TEACHING"
             THEN /\ ops' = N(<<"pause">>)
                  /\ session'.status = "PAUSED"
                  /\ session'.interruption_count = session.interruption_count + 1
             ELSE /\ ops' = <<>>
                  /\ session' = session]_vars

\* a USER_MESSAGE received in PAUSED has reached waitForAnswer()
C22_Witness ==
    /\ event.type = "USER_MESSAGE" /\ pc = "um_teaching"
    /\ frame.was_paused /\ frame.s0.status = "PAUSED"
    /\ session.status = "ANSWERING"
    /\ session.interruption_count = frame.s0.interruption_count

\* C23: a completed REQUEST_QUIZ or REQUEST_FLASHCARDS turn is a
\* USER_MESSAGE turn but for the prompt, the closing line and the title: it
\* has applied waitForAnswer(), sent the ANSWERING status then the TEACHING
\* status, then the deltas, the board actions, the final event and the
\* audio, and ended with continueTeaching() and nextStep(), the session
\* being in TEACHING with stepCounter increased by 1.
C23_RequestTurnLikeUserTurn ==
    (event.type \in {"REQUEST_QUIZ", "REQUEST_FLASHCARDS"} /\ TurnCompleted) =>
        /\ Len(out) >= 2
        /\ out[1] = StatusEvent("ANSWERING")
        /\ out[2] = StatusEvent("TEACHING")
        /\ Precede(out, "TEACHER_TEXT_DELTA", "BOARD_ACTION")
        /\ Precede(out, "BOARD_ACTION", "TEACHER_TEXT_FINAL")
        /\ Precede(out, "TEACHER_TEXT_FINAL", "AUDIO")
        /\ Count(out, "TEACHER_TEXT_FINAL") = 1
        /\ \E i, j \in 1..Len(ops) :
              i < j /\ ops[i].op = "continue_teaching" /\ ops[j].op = "next_step"
        /\ session.status = "TEACHING"
        /\ session.step_id = frame.s0.step_id + 1

\* a step of the connection's VoiceManager while the connection stays open
\* in manual mode
ManualStep == conn = "open" /\ conn' = "open" /\ ~voice.auto_finish

StopMessage == event.type = "TOGGLE_VOICE" /\ event.kind = "stop"

\* C24: in manual mode, as every connection is configured, no classifier
\* result on an audio frame turns isRecording from false to true, an audio
\* frame never triggers a transcription nor returns text, and a recording
\* ends and is transcribed only on an explicit stop.
C24_ManualSegmentation ==
    [][ManualStep =>
          /\ (~voice.is_recording /\ voice'.is_recording) =>
                (event.type = "TOGGLE_VOICE" /\ event.kind = "start")
          /\ pc = "audio_chunk" =>
                (voice'.calls = voice.calls /\ pc' = "return")
          /\ (voice.is_recording /\ ~voice'.is_recording) => StopMessage
          /\ voice'.calls # voice.calls => StopMessage]_vars

\* detect has been applied in its stop-word scoring step: no contextLanguage,
\* no explicit keyword, no Arabic-range character
Scored == pc = "detected" /\ event.context_language = "" /\ PlainText(event.text)

\* the languages holding the highest intersection count
Highest(text) ==
    {l \in DOMAIN counts(text) :
        \A k \in DOMAIN counts(text) : counts(text)[k] <= counts(text)[l]}

InsideTurn ==
    {"um_check", "um_wait", "um_teaching", "um_quiz", "um_history", "um_generate",
     "um_delta", "um_board", "um_await", "um_final", "um_audio", "um_title",
     "um_finish"}

IsPrefix(a, b) == Len(a) <= Len(b) /\ SubSeq(b, 1, Len(a)) = a

\* an INTERRUPT the client sent while the turn was being handled is waiting
InterruptedMidTurn ==
    /\ event.type = "USER_MESSAGE"
    /\ \E i \in DOMAIN inbox :
          inbox[i].event.type = "INTERRUPT" /\ inbox[i].at \in InsideTurn

\* the turn goes on as if nothing had been sent
TurnUndisturbed ==
    InterruptedMidTurn =>
        /\ session.status = "PAUSED" => pc \in {"um_check", "um_wait"}
        /\ Precede(out, "TEACHER_TEXT_DELTA", "BOARD_ACTION")
        /\ Precede(out, "BOARD_ACTION", "TEACHER_TEXT_FINAL")
        /\ Precede(out, "TEACHER_TEXT_FINAL", "AUDIO")
        /\ Count(out, "STATUS") >= 1 => out[1] = StatusEvent("ANSWERING")
        /\ \A i \in DOMAIN out : out[i] # StatusEvent("PAUSED")
        /\ TurnCompleted =>
              /\ Count(out, "TEACHER_TEXT_DELTA") = frame.words
              /\ Count(out, "BOARD_ACTION") = Len(frame.actions)
              /\ Count(out, "TEACHER_TEXT_FINAL") = 1
              /\ session.status = "TEACHING"
              /\ session.step_id = frame.s0.step_id + 1

\* no message is taken up, and no event of another message sent, inside a turn
NoReceiveInsideTurn ==
    /\ (event.type = "USER_MESSAGE" /\ pc \in InsideTurn) =>
          /\ event' = event
          /\ IsPrefix(out, out')
          /\ IsPrefix(inbox, inbox')
          /\ pc' \in InsideTurn \cup {"return"}
    /\ (event'.type = "INTERRUPT" /\ event # event') => pc = "receive"

\* C26: there is no mid-turn cancellation on a connection: every outbound
\* event of a USER_MESSAGE turn is sent before any event caused by a later
\* inbound message, and an INTERRUPT sent during the turn neither stops nor
\* reorders the rest of the turn; it takes effect only after the turn's
\* continueTeaching() and nextStep().
C26_NoMidTurnCancellation == []TurnUndisturbed /\ [][NoReceiveInsideTurn]_vars

\* a turn has completed while an INTERRUPT sent after its first delta waits
C26_Witness ==
    /\ event.type = "USER_MESSAGE" /\ TurnCompleted
    /\ session.status = "TEACHING"
    /\ Len(inbox) = 1
    /\ inbox[1].event.type = "INTERRUPT"
    /\ inbox[1].at \in {"um_board", "um_await"}
    /\ Count(out, "TEACHER_TEXT_DELTA") = MaxWords

\* C27: update(session) is called after every mutation that must survive a
\* restart: when the gateway has completed a USER_MESSAGE turn, an INTERRUPT,
\* a RESUME or a CHANGE_DIFFICULTY and goes back to wait for the next
\* message, the stored record agrees with the cached session on status,
\* difficultyLevel, history and checkpointSummary.
C27_StoredAgreesWhenIdle ==
    (/\ event.type \in {"USER_MESSAGE", "INTERRUPT", "RESUME", "CHANGE_DIFFICULTY"}
     /\ TurnCompleted /\ cached) =>
        /\ db.present
        /\ db.status = session.status
        /\ db.difficulty_level = session.difficulty_level
        /\ db.history = session.history
        /\ db.checkpoint_summary = session.checkpoint_summary

\* C28: get(id) returns the cached instance when the id is cached, and
\* otherwise rehydrates from storage and caches the result.  Round trip:
\* after update(session) and the eviction of the session from the cache,
\* get(id) yields a session whose status, stepCounter, difficultyLevel,
\* interruptionCount, history, checkpointSummary and checkpoints are those
\* of the session at the time of the update.
C28_GetRoundTrip ==
    [][(Len(ops') = 1 /\ ops'[1].op = "get_session") =>
          /\ cached'
          /\ cached => session' = session
          /\ (~cached /\ db = update_session(session)) =>
                /\ session'.status = session.status
                /\ session'.step_id = session.step_id
                /\ session'.difficulty_level = session.difficulty_level
                /\ session'.interruption_count = session.interruption_count
                /\ session'.history = session.history
                /\ session'.checkpoint_summary = session.checkpoint_summary
                /\ session'.checkpoints = session.checkpoints]_vars

Max(a, b) == IF a >= b THEN a ELSE b

\* every message received before the current one was a turn that completed
AllCompletedBefore == session.step_id = received - 1

\* C29: on one connection that carries only USER_MESSAGE events, every
\* completed turn leaves the session in TEACHING, so that the following
\* USER_MESSAGE is treated as an interruption and calls pause(); after k >= 1
\* consecutive completed turns on a session created with difficulty d,
\* interruptionCount is k and difficultyLevel is max(1, d - (k - 1)): the
\* first turn keeps the difficulty and each later one lowers it by 1 down
\* to 1.
C29_TalkingLowersDifficulty ==
    /\ (event.type = "USER_MESSAGE" /\ pc = "um_check" /\ AllCompletedBefore) =>
          /\ session.status = "TEACHING"
          /\ session.interruption_count = received - 1
    /\ (event.type = "USER_MESSAGE" /\ pc = "um_wait" /\ AllCompletedBefore) =>
          /\ ops = N(<<"pause">>)
          /\ frame.was_teaching
    /\ (event.type = "USER_MESSAGE" /\ TurnCompleted /\ session.step_id = received) =>
          /\ session.status = "TEACHING"
          /\ session.interruption_count = received
          /\ session.difficulty_level =
                IF received = 1 THEN frame.s0.difficulty_level
                ELSE Max(1, frame.s0.difficulty_level - 1)

\* the second completed turn of a session has lowered its difficulty
C29_Witness ==
    /\ event.type = "USER_MESSAGE" /\ TurnCompleted
    /\ received = 2 /\ session.step_id = 2
    /\ session.interruption_count = 2
    /\ session.difficulty_level = frame.s0.difficulty_level - 1

\* the turn is past waitForAnswer() and before its continueTeaching()
Answering == event.type = "USER_MESSAGE" /\ pc \in InsideTurn \ {"um_check", "um_wait"}

\* C30: in a USER_MESSAGE turn the session's status is ANSWERING from
\* waitForAnswer() until continueTeaching() is called after the audio: the
\* TEACHING status event before the first delta is sent while the session
\* is still ANSWERING; a turn that aborts after waitForAnswer() leaves the
\* session in ANSWERING, and the next USER_MESSAGE turn, starting from
\* ANSWERING, calls no pause() and meets no rejected transition on its way
\* to completion.
C30_AnsweringThroughTurn ==
    /\ Answering => session.status = "ANSWERING"
    /\ (Answering /\ Len(out) >= 2) =>
          (out[2] = StatusEvent("TEACHING") /\ out[2].status # session.status)
    /\ (event.type = "USER_MESSAGE" /\ pc = "return" /\ frame.result = "aborted") =>
          session.status = "ANSWERING"
    /\ (event.type = "USER_MESSAGE" /\ frame.s0.status = "ANSWERING" /\ pc # "um_check") =>
          /\ ~frame.was_paused /\ ~frame.was_teaching
          /\ session.interruption_count = frame.s0.interruption_count
          /\ ~raised
          /\ TurnCompleted =>
                /\ session.status = "TEACHING"
                /\ session.step_id = frame.s0.step_id + 1

\* a turn started in ANSWERING, where an aborted turn left the session, has
\* completed
C30_Witness ==
    /\ event.type = "USER_MESSAGE" /\ TurnCompleted
    /\ frame.s0.status = "ANSWERING"
    /\ received = 2
    /\ session.status = "TEACHING"
    /\ session.interruption_count = 1

====
